---------------------------- MODULE Spec2Model ----------------------------
(***************************************************************************)
(* A model of the crude-oil tank-farm simulator (src/scheduler.py, class   *)
(* Simulator) and of the run it is given by routes.simulate.               *)
(*                                                                         *)
(* Time is an integer number of seconds since cfg["start_dt"]; volumes are *)
(* whole barrels.  Both rates are 100 bbl/h, so a barrel takes 36 s and    *)
(* the quotients the code computes in floating point (volume / rate_hour,  *)
(* volume / discharge_rate, rate_hour * hours) are whole seconds and whole *)
(* barrels: \div is exact.  A duration the code holds in hours is held in  *)
(* seconds here.                                                           *)
(*                                                                         *)
(* Each handler of the simulator is an operator from a simulator record    *)
(* (Sim) to the simulator record after the call; the actions are the       *)
(* positions of run() / simulate_day() and apply the handler called there. *)
(***************************************************************************)
EXTENDS Integers, Sequences, FiniteSets, TLC

\* ------------------------------------------------------------------ bounds
NumTanks == 3
HorizonDays == 3

\* ------------------------------------------------------- program constants
Minute == 60
Hour == 3600
HoursPerDay == 24
Day == HoursPerDay * Hour
DatetimeMin == -1
FullTolerance == 100
MinVolume == 1
NumBerths == 2

None == -2
READY == "READY"
FEEDING == "FEEDING"
EMPTY == "EMPTY"
FILLING == "FILLING"
FILLED == "FILLED"
SETTLING == "SETTLING"
LAB == "LAB"
SUSPENDED == "SUSPENDED"

Tanks == 1..NumTanks
Berths == 1..NumBerths

Min(a, b) == IF a <= b THEN a ELSE b
Max(a, b) == IF a >= b THEN a ELSE b

\* --------------------------------------------------- the run's configuration
\* cfg["processing_rate"], bbl/day, and the hourly rate derived from it.
rate_day == 2400
rate_hour == rate_day \div HoursPerDay
usable == 1200
dead_bottom == 100
buffer_volume == 0
unusable_per_tank == dead_bottom + (buffer_volume \div 2)
discharge_rate == 100
settle_hours == 6

\* Gross initial levels a request may carry for a tank (tank{i}Level): empty,
\* part full, full to the brim, and above the tank's capacity (no request
\* validation bounds it).
LevelChoices(i) ==
    IF i = 1 THEN {0, 400, usable + unusable_per_tank}
    ELSE IF i = 2 THEN {0, 400, usable + unusable_per_tank + 200}
    ELSE {0, usable + unusable_per_tank}

\* The crude names of the plan.
CrudeA == "A"
CrudeB == "B"
CrudeC == "C"

Assign(t, v, c) == [tank_id |-> t, volume |-> v, crude_name |-> c, filled |-> 0]
Cargo(size, crude) == [size |-> size, crude_name |-> crude]

\* The plans the optimizer may hand over: the cargo list (solver_results
\* ["cargo_schedule"]) and, per cargo, the ordered (tank, volume, crude)
\* assignments.  A cargo without assignments is filled by the sequential rule.
SolverPlans ==
    { [cargo_schedule |-> << >>, assignments |-> << >>],
      [cargo_schedule |-> << Cargo(1800, CrudeA) >>, assignments |-> << << >> >>],
      [cargo_schedule |-> << Cargo(1100, CrudeA), Cargo(1200, CrudeB), Cargo(1200, CrudeC) >>,
       assignments |-> << << >>, << >>, << >> >>],
      [cargo_schedule |-> << Cargo(1800, CrudeA) >>,
       assignments |-> << << Assign(1, 900, CrudeA), Assign(2, 600, CrudeB), Assign(3, 300, CrudeC) >> >>],
      [cargo_schedule |-> << Cargo(2400, CrudeA), Cargo(1200, CrudeB), Cargo(2400, CrudeC) >>,
       assignments |-> << << >>, << >>, << >> >>],
      [cargo_schedule |-> << Cargo(2400, CrudeA), Cargo(600, CrudeB) >>,
       assignments |-> << << Assign(2, 1200, CrudeA), Assign(3, 1200, CrudeA) >>,
                          << Assign(1, 600, CrudeB) >> >>] }

\* tank_gap_hours (after a tank empties) and tankFillGapHours (after a partial fill).
GapConfigs ==
    { [tank_gap_hours |-> 0, tank_fill_gap_hours |-> 0],
      [tank_gap_hours |-> 6, tank_fill_gap_hours |-> 6] }

\* berth_gap_hours_min and berth_gap_hours_max.
BerthGapConfigs ==
    { [min |-> 0, max |-> 0], [min |-> 12, max |-> 12], [min |-> 6, max |-> 12] }

AllLevels == UNION { LevelChoices(i) : i \in Tanks }

\* The fields only the standard scheduler reads: min_ready_tanks,
\* first_cargo_min_ready and first_cargo_max_ready (defaults 2, 8 and 9) and
\* cargo_defs, the volume of every enabled cargo type.
DefaultGate ==
    [min_ready_tanks |-> 2, first_cargo_min_ready |-> 8, first_cargo_max_ready |-> 9,
     cargo_defs |-> [ct \in {"VLCC"} |-> 2 * usable]]

\* Requests of standard mode: the ready-tank gate of a further cargo within
\* reach or above the number of tanks, the gate of the first cargo at its
\* default or open to any count, one cargo type enabled or none.
StandardGates ==
    { [min_ready_tanks |-> m, first_cargo_min_ready |-> f.min, first_cargo_max_ready |-> f.max,
       cargo_defs |-> d] :
        m \in {1, NumTanks + 1},
        f \in {[min |-> 8, max |-> 9], [min |-> 0, max |-> NumTanks]},
        d \in {[ct \in {} |-> 0], [ct \in {"VLCC"} |-> 2 * usable]} }

ConfigsOf(modes, plans, gates) ==
    { [initial_tank_levels |-> lv, lab_hours |-> lab,
       tank_gap_hours |-> g.tank_gap_hours, tank_fill_gap_hours |-> g.tank_fill_gap_hours,
       berth_gap_hours_min |-> b.min, berth_gap_hours_max |-> b.max,
       fill_delay_hours |-> 0, horizon_hours |-> HorizonDays * HoursPerDay,
       snapshot_interval_minutes |-> 360,
       use_optimized_schedule |-> m, plan |-> p,
       min_ready_tanks |-> gt.min_ready_tanks,
       first_cargo_min_ready |-> gt.first_cargo_min_ready,
       first_cargo_max_ready |-> gt.first_cargo_max_ready,
       cargo_defs |-> gt.cargo_defs] :
        lv \in { f \in [Tanks -> AllLevels] : \A i \in Tanks : f[i] \in LevelChoices(i) },
        lab \in {0, 6}, g \in GapConfigs, b \in BerthGapConfigs,
        m \in modes, p \in plans, gt \in gates }

\* A request either asks for the optimized schedule and carries the optimizer's
\* plan, or does not and carries none.
NoPlan == [cargo_schedule |-> << >>, assignments |-> << >>]

\* Requests with a step that does not divide the day (snapshotIntervalMinutes
\* = 900), a horizon that is or is not a whole number of days, and a first
\* tank whose level is not a whole number of hours of feed.
VariantLevelChoices(i) == IF i = 1 THEN {401, usable + unusable_per_tank} ELSE LevelChoices(i)

VariantConfigsOf(gaps, plans) ==
    { [initial_tank_levels |-> lv, lab_hours |-> 0,
       tank_gap_hours |-> g.tank_gap_hours, tank_fill_gap_hours |-> g.tank_fill_gap_hours,
       berth_gap_hours_min |-> 0, berth_gap_hours_max |-> 0,
       fill_delay_hours |-> 0, horizon_hours |-> h,
       snapshot_interval_minutes |-> 900,
       use_optimized_schedule |-> TRUE, plan |-> p,
       min_ready_tanks |-> DefaultGate.min_ready_tanks,
       first_cargo_min_ready |-> DefaultGate.first_cargo_min_ready,
       first_cargo_max_ready |-> DefaultGate.first_cargo_max_ready,
       cargo_defs |-> DefaultGate.cargo_defs] :
        lv \in { f \in [Tanks -> AllLevels \cup VariantLevelChoices(1)] :
                    \A i \in Tanks : f[i] \in VariantLevelChoices(i) },
        h \in {HorizonDays * HoursPerDay - (HoursPerDay \div 2), (HorizonDays + 1) * HoursPerDay},
        g \in gaps, p \in plans }

\* The plan of three cargos filled by the sequential rule.
ThreeCargoPlan ==
    [cargo_schedule |-> << Cargo(2400, CrudeA), Cargo(1200, CrudeB), Cargo(2400, CrudeC) >>,
     assignments |-> << << >>, << >>, << >> >>]

\* The variant requests: every plan without tank gaps, the three-cargo plan
\* with them as well.
VariantConfigs ==
    VariantConfigsOf({[tank_gap_hours |-> 0, tank_fill_gap_hours |-> 0]}, SolverPlans)
        \cup VariantConfigsOf(GapConfigs, {ThreeCargoPlan})

\* Requests with every cargo type at 0 (cargo_defs empty, routes.py lines
\* 1410-1416) and an optimizer plan without cargos: nothing ever arrives.
NoCargoConfigs ==
    { c \in ConfigsOf({TRUE}, {NoPlan},
                      {[DefaultGate EXCEPT !.cargo_defs = [ct \in {} |-> 0]]}) :
        c.lab_hours = 0 /\ c.tank_gap_hours = 0 /\ c.berth_gap_hours_max = 0 }

\* Requests whose berth gap is drawn from 12 to 36 hours, so that a day
\* start can fall between the draws of two cargos, with the three-cargo plan.
WideGapConfigs ==
    { [c EXCEPT !.berth_gap_hours_min = 12, !.berth_gap_hours_max = 36] :
        c \in { d \in ConfigsOf({TRUE}, {ThreeCargoPlan}, {DefaultGate}) :
                   d.lab_hours = 0 /\ d.tank_gap_hours = 0 /\ d.berth_gap_hours_max = 0 } }

\* A plan that fills the same tank from two cargos of different crudes, one
\* feed cycle apart.
RefillPlan ==
    [cargo_schedule |-> << Cargo(usable, CrudeA), Cargo(usable, CrudeB) >>,
     assignments |-> << << Assign(2, usable, CrudeA) >>, << Assign(2, usable, CrudeB) >> >>]

RefillConfigs ==
    { c \in ConfigsOf({TRUE}, {RefillPlan}, {DefaultGate}) :
        c.lab_hours = 0 /\ c.tank_gap_hours = 0 /\ c.berth_gap_hours_max = 0 }

\* One cargo that fills a tank to within the tolerance of full.
ShortCargoPlan ==
    [cargo_schedule |-> << Cargo(usable - FullTolerance, CrudeA) >>, assignments |-> << << >> >>]

\* Requests with a lab time shorter than the step (900 minutes), so that one
\* tick can find both the settling and the lab time of a tank expired.
LateLabConfigs ==
    { [c EXCEPT !.lab_hours = 6] :
        c \in VariantConfigsOf({[tank_gap_hours |-> 0, tank_fill_gap_hours |-> 0]},
                               {ShortCargoPlan}) }

\* The requests explored: a berth gap that is drawn (min < max) is combined
\* with no lab time and no tank gaps only.
Configs ==
    { c \in ConfigsOf({TRUE}, SolverPlans, {DefaultGate}) :
        \/ c.berth_gap_hours_min = c.berth_gap_hours_max
        \/ c.lab_hours = 0 /\ c.tank_gap_hours = 0 }
        \cup ConfigsOf({FALSE}, {NoPlan}, StandardGates) \cup VariantConfigs
        \cup NoCargoConfigs \cup WideGapConfigs \cup RefillConfigs
        \cup LateLabConfigs

\* ------------------------------------------------------------------- state
VARIABLES
    cfg,                     \* the configuration of the run (never changes)
    pc,                      \* the position of run() / simulate_day()
    day_index,               \* run(): the day being simulated
    now,                     \* simulate_day(): the clock
    step_end,                \* simulate_day(): the end of the current step
    next_snapshot,           \* simulate_day(): the next snapshot instant
    total_processed_today,   \* simulate_day(): processed so far this day
    processed_this_step,     \* simulate_day(): what the last _consume_hour returned
    step_start,              \* the clock at the last _consume_hour call
    true_opening_stock,      \* simulate_day(): sum of all tanks at day start
    certified_stock,         \* simulate_day(): READY + FEEDING stock at day start
    use_solver_plan,         \* Simulator.use_solver_plan
    state,                   \* Simulator.state
    state_history,           \* Simulator.state_history
    bbl,                     \* Simulator.bbl (usable barrels)
    daily_consumption,       \* Simulator.daily_consumption
    initially_empty_tanks,   \* Simulator.initially_empty_tanks (a list)
    tank_cycle_counter,      \* Simulator.tank_cycle_counter
    ready_at, settle_end_at, lab_start_at, ready_for_fill_at,
    feed_start_volume, tank_feed_start_time,
    tank_mix, tank_mix_pct,
    no_feed_alert_logged,    \* Simulator.no_feed_alert_logged (the halt flag)
    tank_filled_first,       \* Simulator.tank_filled_first
    active,                  \* Simulator.active
    berths,                  \* Simulator.berths
    active_fills,            \* Simulator.active_fills, in insertion order
    cargos,                  \* Simulator.cargos
    cargo_remaining_volume,  \* Simulator.cargo_remaining_volume, by vessel
    cargo_to_tank_assignments, \* the plan's assignments, by cargo
    daily_log_rows,          \* Simulator.daily_log_rows (the event log)
    daily_summary_rows,      \* Simulator.daily_summary_rows
    snapshot_log,            \* Simulator.snapshot_log
    infeasible,              \* Simulator.infeasible
    infeasible_reason,       \* Simulator.infeasible_reason
    initial_stock            \* sum of the tanks' volumes after construction

driver == << cfg, pc, day_index, now, step_end, next_snapshot, total_processed_today,
             processed_this_step, step_start, true_opening_stock, certified_stock,
             initial_stock >>

simvars == << use_solver_plan, state, state_history, bbl, daily_consumption,
              initially_empty_tanks, tank_cycle_counter, ready_at, settle_end_at,
              lab_start_at, ready_for_fill_at, feed_start_volume, tank_feed_start_time,
              tank_mix, tank_mix_pct, no_feed_alert_logged, tank_filled_first, active,
              berths, active_fills, cargos, cargo_remaining_volume,
              cargo_to_tank_assignments, daily_log_rows, daily_summary_rows,
              snapshot_log, infeasible, infeasible_reason >>

vars == << driver, simvars >>

\* The simulator object as one record: what a handler reads and returns.
Sim ==
    [ cfg |-> cfg, use_solver_plan |-> use_solver_plan, state |-> state,
      state_history |-> state_history, bbl |-> bbl,
      daily_consumption |-> daily_consumption,
      initially_empty_tanks |-> initially_empty_tanks,
      tank_cycle_counter |-> tank_cycle_counter, ready_at |-> ready_at,
      settle_end_at |-> settle_end_at, lab_start_at |-> lab_start_at,
      ready_for_fill_at |-> ready_for_fill_at, feed_start_volume |-> feed_start_volume,
      tank_feed_start_time |-> tank_feed_start_time, tank_mix |-> tank_mix,
      tank_mix_pct |-> tank_mix_pct, no_feed_alert_logged |-> no_feed_alert_logged,
      tank_filled_first |-> tank_filled_first, active |-> active, berths |-> berths,
      active_fills |-> active_fills, cargos |-> cargos,
      cargo_remaining_volume |-> cargo_remaining_volume,
      cargo_to_tank_assignments |-> cargo_to_tank_assignments,
      daily_log_rows |-> daily_log_rows, daily_summary_rows |-> daily_summary_rows,
      snapshot_log |-> snapshot_log, infeasible |-> infeasible,
      infeasible_reason |-> infeasible_reason, raised |-> FALSE ]

\* The simulator object after a handler returned r (bound once as s).
Becomes(r) ==
    \E s \in {r} :
        /\ use_solver_plan' = s.use_solver_plan
        /\ state' = s.state
        /\ state_history' = s.state_history
        /\ bbl' = s.bbl
        /\ daily_consumption' = s.daily_consumption
        /\ initially_empty_tanks' = s.initially_empty_tanks
        /\ tank_cycle_counter' = s.tank_cycle_counter
        /\ ready_at' = s.ready_at
        /\ settle_end_at' = s.settle_end_at
        /\ lab_start_at' = s.lab_start_at
        /\ ready_for_fill_at' = s.ready_for_fill_at
        /\ feed_start_volume' = s.feed_start_volume
        /\ tank_feed_start_time' = s.tank_feed_start_time
        /\ tank_mix' = s.tank_mix
        /\ tank_mix_pct' = s.tank_mix_pct
        /\ no_feed_alert_logged' = s.no_feed_alert_logged
        /\ tank_filled_first' = s.tank_filled_first
        /\ active' = s.active
        /\ berths' = s.berths
        /\ active_fills' = s.active_fills
        /\ cargos' = s.cargos
        /\ cargo_remaining_volume' = s.cargo_remaining_volume
        /\ cargo_to_tank_assignments' = s.cargo_to_tank_assignments
        /\ daily_log_rows' = s.daily_log_rows
        /\ daily_summary_rows' = s.daily_summary_rows
        /\ snapshot_log' = s.snapshot_log
        /\ infeasible' = s.infeasible
        /\ infeasible_reason' = s.infeasible_reason

hours(h) == h * Hour

\* ----------------------------------------------------------------- logging
\* _change_state: set the tank's state and append to the history.
ChangeState(s, tank_id, new_state, when) ==
    [s EXCEPT !.state[tank_id] = new_state,
              !.state_history = Append(@, [when |-> when, tank |-> tank_id, state |-> new_state])]

\* The loop of _get_state_at_time: apply the history in insertion order and
\* stop at the first entry later than ts.
RECURSIVE ApplyHistory(_, _, _, _)
ApplyHistory(hist, ts, states, k) ==
    IF k > Len(hist) THEN states
    ELSE IF hist[k].when <= ts
         THEN ApplyHistory(hist, ts, [states EXCEPT ![hist[k].tank] = hist[k].state], k + 1)
         ELSE states

InList(list, x) == \E k \in 1..Len(list) : list[k] = x

\* _get_state_at_time
GetStateAtTime(s, ts) ==
    ApplyHistory(s.state_history, ts,
                 [i \in Tanks |-> IF InList(s.initially_empty_tanks, i) THEN EMPTY ELSE READY],
                 1)

cycle_events == {"FILL_START_FIRST", "FILL_FINAL_END", "SETTLING_START", "SETTLING_END", "READY"}

\* strftime("%d/%m/%Y %H:%M"): the instant cut to whole minutes.
FormatTimestamp(ts) == ts \div Minute

\* _log_event: the row's Event is the name and, for a cycle event of a tank,
\* the tank's cycle number (0 stands for no suffix).  Instant is not a column
\* of the row: it records the ts the row was logged with, which Timestamp
\* holds cut to the minute.
LogEvent(s, ts, level, event, tank_id, cargo) ==
    LET cycle_num == IF event \in cycle_events /\ tank_id # None
                     THEN s.tank_cycle_counter[tank_id] ELSE 0
        row == [Timestamp |-> FormatTimestamp(ts), Level |-> level, Event |-> event,
                Cycle |-> cycle_num, Tank |-> tank_id, Cargo |-> cargo,
                States |-> GetStateAtTime(s, ts), Instant |-> ts]
    IN [s EXCEPT !.daily_log_rows = Append(@, row)]

\* ---------------------------------------------------------------- utilities
\* _count_state
CountState(s, target) == Cardinality({i \in Tanks : s.state[i] = target})

RECURSIVE SumOver(_, _)
SumOver(f, S) ==
    IF S = {} THEN 0
    ELSE LET x == CHOOSE y \in S : TRUE IN f[x] + SumOver(f, S \ {x})

\* _sum_stock_ready_and_feeding
SumStockReadyAndFeeding(s) == SumOver(s.bbl, {i \in Tanks : s.state[i] \in {READY, FEEDING}})

TotalStock(s) == SumOver(s.bbl, Tanks)

\* _find_next_ready_sequential: the first READY tank after start_from in the
\* cyclic order 1 -> 2 -> ... -> N -> 1, or None.
TankAtOffset(start_from, offset) == ((start_from - 1 + offset) % NumTanks) + 1

FindNextReadySequential(s, start_from) ==
    LET offs == {o \in 1..NumTanks : s.state[TankAtOffset(start_from, o)] = READY}
    IN IF offs = {} THEN None
       ELSE TankAtOffset(start_from, CHOOSE o \in offs : \A o2 \in offs : o <= o2)

\* A resume that leaves the halt flag as it was.
ResumedFlagKept(was_halted) == was_halted

\* The halt flag after a resume from a halt (lines 852, 960).
ResumedFlag(was_halted) == FALSE


\* ------------------------------------------------------------------ feeding
\* _ensure_feeding
EnsureFeeding(s, t) ==
    IF s.active # 0 /\ s.state[s.active] = FEEDING THEN s
    ELSE LET nxt == FindNextReadySequential(s, s.active) IN
         IF nxt # None
         THEN LET was_halted == s.no_feed_alert_logged
                  s1 == ChangeState([s EXCEPT !.active = nxt], nxt, FEEDING, t)
                  s2 == [s1 EXCEPT !.bbl[nxt] = Min(@, usable)]
                  s3 == [s2 EXCEPT !.feed_start_volume[nxt] = s2.bbl[nxt],
                                   !.tank_feed_start_time[nxt] = t]
                  s4 == IF was_halted
                        THEN [LogEvent(s3, t, "Success", "PROCESSING_RESUME", None, None)
                                 EXCEPT !.no_feed_alert_logged = ResumedFlag(was_halted)]
                        ELSE s3
              IN LogEvent(s4, t, "Success", "FEED_START", nxt, None)
         ELSE IF ~s.no_feed_alert_logged
              THEN [LogEvent(s, t, "Danger", "NO_FEED_AVAILABLE", None, None)
                       EXCEPT !.no_feed_alert_logged = TRUE]
              ELSE s

\* timedelta(hours=volume / rate): the time it takes to move volume at rate.
Duration(volume, rate) == (volume * Hour) \div rate

\* rate * hours: the volume moved at rate in a duration.
VolumeIn(rate, duration) == (rate * duration) \div Hour

\* A takeover that drains whatever the next tank holds, whatever is left of the hour.
AdditionalUncapped(remaining_hour, available) == available

\* What the takeover tank gives in the rest of the step (line 970).
Additional(remaining_hour, available) == Min(VolumeIn(rate_hour, remaining_hour), available)

\* _consume_hour on [t, hour_end]: the simulator after the call and the
\* volume the call returns.
ConsumeHour(s, t, hour_end) ==
    IF s.active = 0 \/ s.state[s.active] # FEEDING
    THEN [sim |-> s, processed |-> 0]
    ELSE IF rate_hour <= 0 THEN [sim |-> s, processed |-> 0]
    ELSE LET a == s.active
             available_in_tank == s.bbl[a]
         IN
         IF available_in_tank <= 0
         THEN LET s1 == ChangeState(s, a, EMPTY, t)
                  s2 == [s1 EXCEPT !.ready_for_fill_at[a] = t + hours(s.cfg.tank_gap_hours)]
              IN [sim |-> LogEvent(s2, t, "Warning", "FEED_ERROR", a, None), processed |-> 0]
         ELSE LET time_to_empty_h == Duration(available_in_tank, rate_hour)
                  hour_length_h == hour_end - t
              IN
              IF time_to_empty_h > hour_length_h
              THEN LET take == VolumeIn(rate_hour, hour_length_h)
                   IN [sim |-> [s EXCEPT !.bbl[a] = Max(0, @ - take),
                                         !.daily_consumption[a] = @ + take],
                       processed |-> take]
              ELSE
                LET t_empty == t + time_to_empty_h
                    take == available_in_tank
                    s1 == [s EXCEPT !.bbl[a] = 0,
                                    !.daily_consumption[a] = @ + take,
                                    !.tank_filled_first = @ \ {a}]
                    s2 == ChangeState(s1, a, EMPTY, t_empty)
                    s3 == [s2 EXCEPT !.ready_for_fill_at[a] = t_empty + hours(s.cfg.tank_gap_hours)]
                    s4 == LogEvent(s3, t_empty, "Warning", "TANK_EMPTY", a, None)
                    s5 == IF s.cfg.tank_gap_hours > 0
                          THEN LogEvent(s4, t_empty, "Info", "EMPTY_START", a, None)
                          ELSE s4
                    nxt == FindNextReadySequential(s5, a)
                IN
                IF nxt # None
                THEN LET was_halted == s5.no_feed_alert_logged
                         s6 == [s5 EXCEPT !.active = nxt, !.bbl[nxt] = Min(@, usable)]
                         s7 == [s6 EXCEPT !.feed_start_volume[nxt] = s6.bbl[nxt],
                                          !.tank_feed_start_time[nxt] = t_empty]
                         s8 == IF was_halted
                               THEN [LogEvent(s7, t_empty, "Success", "PROCESSING_RESUME", None, None)
                                        EXCEPT !.no_feed_alert_logged = ResumedFlag(was_halted)]
                               ELSE s7
                         s9 == ChangeState(s8, nxt, FEEDING, t_empty)
                         s10 == LogEvent(s9, t_empty, "Success", "FEED_CHANGEOVER", nxt, None)
                         remaining_hour == hour_length_h - time_to_empty_h
                     IN IF remaining_hour > 0 /\ s10.bbl[nxt] > 0
                        THEN LET additional == Additional(remaining_hour, s10.bbl[nxt])
                             IN [sim |-> [s10 EXCEPT !.bbl[nxt] = @ - additional,
                                                     !.daily_consumption[nxt] = @ + additional],
                                 processed |-> take + additional]
                        ELSE [sim |-> s10, processed |-> take]
                ELSE LET s6 == [s5 EXCEPT !.active = 0]
                     IN IF ~s6.no_feed_alert_logged
                        THEN [sim |-> [LogEvent(s6, t_empty, "Danger", "PROCESSING_HALT", None, None)
                                          EXCEPT !.no_feed_alert_logged = TRUE],
                              processed |-> take]
                        ELSE [sim |-> s6, processed |-> take]

\* ---------------------------------------------------------------- promotion
\* A promotion that leaves the cycle number as it is.
NextCycleSame(n) == n

\* tank_cycle_counter[tank_id] += 1, after the READY row is logged
NextCycle(n) == n + 1

\* A lab test after every settling, whatever lab_hours is.
LabNeededAlways(lab_hours) == TRUE

\* self.lab_hours > 0: the test of lines 579 and 1000 that sends a settled
\* tank through LAB.
LabNeeded(lab_hours) == lab_hours > 0

\* The ready timer left as it was when the tank is promoted.
ReadyTimerKept(ready_time) == ready_time

\* self.ready_at[i] = None: the timer of a tank promoted to READY (lines 1018
\* and 1051).
ReadyTimerCleared(ready_time) == None

\* A promotion row stamped with the tick that discovers it.
PromotionInstantAtTick(timer, t) == t

\* The instant a promotion's row carries: the timer that expired, not the
\* tick that finds it expired (lines 1007, 1034, 1064).
PromotionInstant(timer, t) == timer


\* One tank's turn in the loop of _promote_ready_tanks.
PromoteTank(s, i, t) ==
    IF s.state[i] = SETTLING /\ s.settle_end_at[i] # None /\ s.settle_end_at[i] <= t
    THEN LET settle_end_time == s.settle_end_at[i] IN
         IF LabNeeded(s.cfg.lab_hours) /\ s.lab_start_at[i] # None /\ s.lab_start_at[i] <= t
         THEN LET s1 == [s EXCEPT !.settle_end_at[i] = None]
                  s2 == LogEvent(s1, PromotionInstant(settle_end_time, t), "Info", "SETTLING_END", i, None)
              IN ChangeState(s2, i, LAB, settle_end_time + 1)
         ELSE IF s.cfg.lab_hours <= 0
         THEN IF s.ready_at[i] # None /\ s.ready_at[i] <= t
              THEN LET ready_time == s.ready_at[i]
                       s1 == [s EXCEPT !.bbl[i] = usable, !.ready_at[i] = ReadyTimerCleared(ready_time),
                                       !.settle_end_at[i] = None, !.lab_start_at[i] = None]
                       s2 == LogEvent(s1, PromotionInstant(settle_end_time, t), "Info", "SETTLING_END", i, None)
                       s3 == LogEvent(s2, PromotionInstant(ready_time, t), "Success", "READY", i, None)
                       s4 == ChangeState(s3, i, READY, ready_time + 1)
                   IN [s4 EXCEPT !.tank_cycle_counter[i] = NextCycle(@)]
              ELSE s
         ELSE s
    ELSE IF s.state[i] = LAB /\ s.ready_at[i] # None /\ s.ready_at[i] <= t
    THEN LET ready_time == s.ready_at[i]
             s1 == [s EXCEPT !.bbl[i] = usable, !.ready_at[i] = ReadyTimerCleared(ready_time),
                             !.lab_start_at[i] = None, !.settle_end_at[i] = None]
             s2 == LogEvent(s1, PromotionInstant(ready_time, t), "Success", "READY", i, None)
             s3 == ChangeState(s2, i, READY, ready_time + 1)
         IN [s3 EXCEPT !.tank_cycle_counter[i] = NextCycle(@)]
    ELSE s

RECURSIVE PromoteFrom(_, _, _)
PromoteFrom(s, i, t) ==
    IF i > NumTanks THEN s ELSE PromoteFrom(PromoteTank(s, i, t), i + 1, t)

\* _promote_ready_tanks
PromoteReadyTanks(s, t) == PromoteFrom(s, 1, t)

\* --------------------------------------------------------- cargo scheduling
\* random.uniform(berth_gap_hours_min, berth_gap_hours_max): either end of the
\* interval (the draws in between change no comparison the ends do not).
GapChoices(c) == {c.berth_gap_hours_min, c.berth_gap_hours_max}

\* The draws of one schedule check: one per cargo not yet dispatched (a
\* dispatched cargo is skipped before the draw, so its entry is never read).
GapDraws(s) ==
    { g \in [1..Len(s.cargos) -> GapChoices(s.cfg)] :
        \A k \in 1..Len(s.cargos) :
            s.cargos[k].dispatched => g[k] = s.cfg.berth_gap_hours_min }

\* An arrival the moment the berth was freed, the gap ignored.
SolverArrivalNoGap(berth, gap_hours) == berth.free_at

\* The earliest arrival of a cargo: the time its berth was last freed plus the
\* gap drawn for it (line 370).
SolverArrival(berth, gap_hours) == berth.free_at + hours(gap_hours)

\* A berth test that lets a cargo in whether or not the berth is occupied.
BerthIdleAlways(berth) == TRUE

\* berth["current_cargo"] is None (line 375)
BerthIdle(berth) == berth.current_cargo = None

\* _schedule_cargos_with_solver: the first pending cargo, in list order, whose
\* berth is idle and whose earliest arrival has come is dispatched; no other.
ScheduleCargosWithSolver(s, t, gaps) ==
    LET ok(k) == /\ ~s.cargos[k].dispatched
                 /\ BerthIdle(s.berths[s.cargos[k].berth])
                 /\ t >= SolverArrival(s.berths[s.cargos[k].berth], gaps[k])
        cand == {k \in 1..Len(s.cargos) : ok(k)}
    IN IF cand = {} THEN s
       ELSE LET k == CHOOSE x \in cand : \A y \in cand : x <= y
                c == s.cargos[k]
                actual_arrival == SolverArrival(s.berths[c.berth], gaps[k])
                s1 == [s EXCEPT !.cargos[k].dispatched = TRUE,
                                !.cargos[k].arrival = actual_arrival,
                                !.cargos[k].fill_start = actual_arrival + hours(s.cfg.fill_delay_hours),
                                !.berths[c.berth].current_cargo = k]
            IN IF ~c.arrival_logged
               THEN [LogEvent(s1, actual_arrival, "Success", "ARRIVAL", None, k)
                        EXCEPT !.cargos[k].arrival_logged = TRUE]
               ELSE s1

\* _schedule_cargos_standard.  Line 442 (import random, inside the function)
\* makes random a local name of the whole function, so line 411
\* (random.uniform) raises UnboundLocalError the first time a berth passes
\* the test of line 409; nothing after line 411 is ever executed.  With no
\* berth passing the test the call changes nothing.
ScheduleCargosStandard(s, t) ==
    IF \E b \in Berths : s.berths[b].current_cargo = None /\ s.berths[b].free_at <= t
    THEN [s EXCEPT !.raised = TRUE]
    ELSE s

\* schedule_cargos
ScheduleCargos(s, t, gaps) ==
    IF s.use_solver_plan THEN ScheduleCargosWithSolver(s, t, gaps)
    ELSE ScheduleCargosStandard(s, t)

\* ------------------------------------------------------------------- fills
HasActiveFill(s, vessel) == \E n \in 1..Len(s.active_fills) : s.active_fills[n].vessel = vessel

\* An eligibility test that also lets a tank that is being filled through.
EligibleOrFilling(s, i, t) ==
    s.state[i] \in {EMPTY, SUSPENDED, FILLING} /\ t >= s.ready_for_fill_at[i]

\* An eligibility test that ignores the preparation time.
EligibleAnyTime(s, i, t) == s.state[i] \in {EMPTY, SUSPENDED}

\* EMPTY or SUSPENDED and past its preparation time (lines 689, 765, 776).
Eligible(s, i, t) == s.state[i] \in {EMPTY, SUSPENDED} /\ t >= s.ready_for_fill_at[i]

\* A guard that looks at the volume left only.
BaseConditionVolumeOnly(s, k) == s.cargo_remaining_volume[k] > MinVolume

\* The guard of lines 639-645: volume left and no fill of this cargo in progress.
BaseCondition(s, k) == s.cargo_remaining_volume[k] > MinVolume /\ ~HasActiveFill(s, k)

\* active_fills[vessel] = entry: a dictionary assignment, which replaces the
\* vessel's entry in place when it has one and adds the entry otherwise.
PutFill(fills, entry) ==
    IF \E n \in 1..Len(fills) : fills[n].vessel = entry.vessel
    THEN [n \in 1..Len(fills) |-> IF fills[n].vessel = entry.vessel THEN entry ELSE fills[n]]
    ELSE Append(fills, entry)

\* A fill start that puts the volume into the tank at once.
VolumeAtFillStartAdded(current_volume, volume_to_fill) == current_volume + volume_to_fill

\* The tank's volume when a fill starts: the volume to add is kept in the
\* active fill (lines 719, 794) and the tank's volume is left as it is.
VolumeAtFillStart(current_volume, volume_to_fill) == current_volume

\* The fill registered for a cargo (lines 711-719 and 786-797, 744-745, 800-801).
BeginFill(s, k, tid, volume_to_fill, t) ==
    LET end_time == t + Duration(volume_to_fill, discharge_rate)
        first == tid \notin s.tank_filled_first
        s1 == [s EXCEPT !.cargos[k].tanks_started = @ + 1,
                        !.cargos[k].discharge_start = IF @ = None THEN t ELSE @,
                        !.active_fills = PutFill(@, [vessel |-> k, tid |-> tid,
                                                     end_time |-> end_time,
                                                     volume |-> volume_to_fill]),
                        !.tank_filled_first = @ \cup {tid},
                        !.bbl[tid] = VolumeAtFillStart(@, volume_to_fill)]
        s2 == ChangeState(s1, tid, FILLING, t)
    IN LogEvent(s2, t, "Info", IF first THEN "FILL_START_FIRST" ELSE "FILL_START", tid, k)

\* A sequential rule that fills half a tank at a time.
StandardFillVolumeHalf(remaining) == Min(remaining, usable \div 2)

\* The volume of a fill by the sequential rule (line 784).
StandardFillVolume(remaining) == Min(remaining, usable)

\* The sequential rule (lines 760-816).
StartFillStandard(s, k, t) ==
    LET lst == s.initially_empty_tanks
        pos == {n \in 1..Len(lst) : Eligible(s, lst[n], t)}
        first_pos == IF pos = {} THEN 0 ELSE CHOOSE n \in pos : \A m \in pos : n <= m
        s1 == IF first_pos = 0 THEN s
              ELSE [s EXCEPT !.initially_empty_tanks =
                        SubSeq(lst, 1, first_pos - 1) \o SubSeq(lst, first_pos + 1, Len(lst))]
        others == {i \in Tanks : Eligible(s1, i, t) /\ ~InList(s1.initially_empty_tanks, i)}
        tid == IF first_pos # 0 THEN lst[first_pos]
               ELSE IF others = {} THEN None
               ELSE CHOOSE i \in others : \A j \in others : i <= j
    IN IF tid = None THEN s1
       ELSE BeginFill(s1, k, tid, StandardFillVolume(s1.cargo_remaining_volume[k]), t)

\* A fill by the plan that is not bounded by the assignment's planned volume.
SolverFillVolumeUnplanned(assign_remaining, remaining_cargo, current_volume) ==
    Min(remaining_cargo, Max(0, usable - current_volume))

\* The volume of a fill by the plan (lines 700-701).
SolverFillVolume(assign_remaining, remaining_cargo, current_volume) ==
    Min(Min(assign_remaining, remaining_cargo), Max(0, usable - current_volume))

\* The plan's rule (lines 667-758): the first assignment, in list order, with
\* volume left whose tank is eligible and not within the tolerance of full.
StartFillSolver(s, k, t) ==
    LET assigns == s.cargo_to_tank_assignments[k]
        actionable(j) ==
            LET a == assigns[j] IN
            /\ a.tank_id \in Tanks
            /\ a.volume - a.filled > MinVolume
            /\ Eligible(s, a.tank_id, t)
            /\ s.bbl[a.tank_id] < usable - FullTolerance
        cand == {j \in 1..Len(assigns) : actionable(j)}
    IN IF cand = {} THEN s
       ELSE LET j == CHOOSE x \in cand : \A y \in cand : x <= y
                a == assigns[j]
                tid == a.tank_id
                volume_to_fill == SolverFillVolume(a.volume - a.filled,
                                                   s.cargo_remaining_volume[k], s.bbl[tid])
                crude_type == s.cargos[k].crude_type
            IN IF volume_to_fill > MinVolume
               THEN LET s1 == [s EXCEPT !.tank_mix[tid][crude_type] = @ + volume_to_fill,
                                        !.cargo_to_tank_assignments[k][j].filled =
                                             a.filled + volume_to_fill]
                    IN BeginFill(s1, k, tid, volume_to_fill, t)
               ELSE s

\* One cargo's turn in the loop of _maybe_start_fill.
StartFillCargo(s, k, t) ==
    LET c == s.cargos[k] IN
    IF ~BaseCondition(s, k) THEN s
    ELSE IF c.discharge_start = None
            /\ ~(IF s.use_solver_plan THEN c.dispatched /\ t >= c.fill_start
                                      ELSE t >= c.fill_start)
    THEN s
    ELSE IF c.next_fill_available_at # None /\ t < c.next_fill_available_at THEN s
    ELSE IF s.use_solver_plan /\ k \in DOMAIN s.cargo_to_tank_assignments
            /\ s.cargo_to_tank_assignments[k] # << >>
    THEN StartFillSolver(s, k, t)
    ELSE StartFillStandard(s, k, t)

RECURSIVE StartFillFrom(_, _, _)
StartFillFrom(s, k, t) ==
    IF k > Len(s.cargos) THEN s ELSE StartFillFrom(StartFillCargo(s, k, t), k + 1, t)

\* _maybe_start_fill
MaybeStartFill(s, t) == StartFillFrom(s, 1, t)

\* The tank's volume after a fill of volume_to_fill (lines 484-486).
FilledVolume(current_volume, volume_to_fill) == Min(current_volume + volume_to_fill, usable)

\* A fullness test without the tolerance.
IsTankFullExact(volume) == volume >= usable

\* is_tank_full (lines 488-493)
IsTankFull(volume) ==
    volume + unusable_per_tank >= (usable + unusable_per_tank) - FullTolerance

\* A completion that leaves the cargo's remaining volume as it was.
RemainingAfterKept(remaining, volume_to_fill) == remaining

\* The cargo's remaining volume after a fill of volume_to_fill (line 596).
RemainingAfter(remaining, volume_to_fill) == remaining - volume_to_fill

Crudes == {CrudeA, CrudeB, CrudeC}

\* The entry removed from the active-fill table (line 604).
WithoutFill(fills, vessel) == SelectSeq(fills, LAMBDA f : f.vessel # vessel)

\* One completed fill (the body of the loop of _maybe_finish_fill, lines 482-618).
FinishOne(s, it) ==
    LET tid == it.tid
        end_time == it.end_time
        volume_to_fill == it.volume
        k == it.vessel
        s1 == [s EXCEPT !.bbl[tid] = FilledVolume(@, volume_to_fill)]
        is_tank_full == IsTankFull(s1.bbl[tid])
        s2 == IF is_tank_full THEN ChangeState(s1, tid, FILLED, end_time) ELSE s1
        s3 == LogEvent(s2, end_time, "Info",
                       IF is_tank_full THEN "FILL_FINAL_END" ELSE "FILL_END", tid, k)
        s4 == IF ~is_tank_full
              THEN [ChangeState(s3, tid, SUSPENDED, end_time)
                       EXCEPT !.ready_for_fill_at[tid] = end_time + hours(s.cfg.tank_fill_gap_hours)]
              ELSE LET settle_end == end_time + hours(settle_hours)
                       mix == s3.tank_mix[tid]
                       total_volume == SumOver(mix, Crudes)
                       f1 == [s3 EXCEPT !.settle_end_at[tid] = settle_end,
                                        !.tank_mix_pct[tid] =
                                            [c \in Crudes |-> IF mix[c] > 0 /\ total_volume > 0
                                                              THEN << mix[c], total_volume >>
                                                              ELSE @[c]]]
                       f2 == ChangeState(f1, tid, SETTLING, end_time)
                       f3 == LogEvent(f2, end_time, "Info", "SETTLING_START", tid, k)
                   IN IF LabNeeded(s.cfg.lab_hours)
                      THEN [f3 EXCEPT !.lab_start_at[tid] = settle_end,
                                      !.ready_at[tid] = settle_end + hours(s.cfg.lab_hours)]
                      ELSE [f3 EXCEPT !.ready_at[tid] = settle_end]
        fill_start_time == end_time - Duration(volume_to_fill, discharge_rate)
        s5 == [s4 EXCEPT !.cargos[k].tanks_done = @ + 1,
                         !.cargos[k].tank_fills =
                             Append(@, [tank |-> tid, start |-> fill_start_time,
                                        end |-> end_time, volume |-> volume_to_fill]),
                         !.cargo_remaining_volume[k] = RemainingAfter(@, volume_to_fill)]
        done == s5.cargo_remaining_volume[k] <= MinVolume
        s6 == IF done THEN [s5 EXCEPT !.cargos[k].discharge_end = end_time] ELSE s5
        s7 == [s6 EXCEPT !.active_fills = WithoutFill(@, k)]
    IN IF ~done
       THEN LET next_available == end_time + hours(s.cfg.tank_fill_gap_hours)
                s8 == [s7 EXCEPT !.cargos[k].next_fill_available_at = next_available]
                s9 == IF s.cfg.tank_fill_gap_hours > 0
                      THEN LogEvent(s8, end_time, "Info", "TANK_GAP_START", tid, k)
                      ELSE s8
            IN [sim |-> MaybeStartFill(s9, end_time), finished |-> << >>]
       ELSE [sim |-> s7, finished |-> << k >>]

\* The loop over the fills that were active when _maybe_finish_fill was called.
RECURSIVE FinishLoop(_, _, _, _, _)
FinishLoop(s, items, n, t, finished) ==
    IF n > Len(items) THEN [sim |-> s, finished |-> finished]
    ELSE IF t >= items[n].end_time
         THEN LET r == FinishOne(s, items[n])
              IN FinishLoop(r.sim, items, n + 1, t, finished \o r.finished)
         ELSE FinishLoop(s, items, n + 1, t, finished)

\* The release of the berths of the cargos that finished (lines 621-629).
RECURSIVE ReleaseBerths(_, _, _, _)
ReleaseBerths(s, finished, n, draws) ==
    IF n > Len(finished) \/ s.raised THEN s
    ELSE LET k == finished[n]
             c == s.cargos[k]
             s1 == [s EXCEPT !.berths[c.berth] = [free_at |-> c.discharge_end,
                                                  current_cargo |-> None]]
             s2 == LogEvent(s1, c.discharge_end, "Success", "DISCHARGE_COMPLETE", None, k)
         IN ReleaseBerths(ScheduleCargos(s2, c.discharge_end, draws[n]), finished, n + 1, draws)

\* _maybe_finish_fill; draws[n] are the draws of the n-th schedule check it makes.
MaybeFinishFill(s, t, draws) ==
    LET r == FinishLoop(s, s.active_fills, 1, t, << >>)
    IN ReleaseBerths(r.sim, r.finished, 1, draws)

\* ------------------------------------------------------------ construction
RECURSIVE Ascending(_)
Ascending(S) ==
    IF S = {} THEN << >>
    ELSE LET x == CHOOSE y \in S : \A z \in S : y <= z IN << x >> \o Ascending(S \ {x})

\* The usable volume stored for a gross initial level (lines 86-89).
InitialUsable(gross) == Max(0, gross - unusable_per_tank)

\* _load_solver_cargos: every cargo of the plan, berths alternating from 1,
\* arrival at the start, not dispatched.
LoadSolverCargos(c) ==
    [k \in 1..Len(c.plan.cargo_schedule) |->
        [vessel_name |-> k, cargo_id |-> k,
         crude_type |-> c.plan.cargo_schedule[k].crude_name,
         berth |-> IF k % 2 = 1 THEN 1 ELSE 2,
         arrival |-> 0, fill_start |-> hours(c.fill_delay_hours),
         volume |-> c.plan.cargo_schedule[k].size,
         tanks_started |-> 0, tanks_done |-> 0,
         discharge_start |-> None, discharge_end |-> None,
         tank_fills |-> << >>, dispatched |-> FALSE, arrival_logged |-> FALSE,
         next_fill_available_at |-> None]]

\* SolverPlanManager.initialize_solver_plan: the plan is accepted and its
\* per-cargo assignments are kept on the simulator, nothing filled yet.
InitializeSolverPlan(c) == c.plan.assignments

\* Simulator.__init__
Construct(c) ==
    LET bbl0 == [i \in Tanks |-> InitialUsable(c.initial_tank_levels[i])]
        state0 == [i \in Tanks |-> IF bbl0[i] <= 0 THEN EMPTY ELSE READY]
        s0 == [ cfg |-> c, use_solver_plan |-> c.use_optimized_schedule,
                state |-> state0, state_history |-> << >>, bbl |-> bbl0,
                daily_consumption |-> [i \in Tanks |-> 0],
                initially_empty_tanks |-> Ascending({i \in Tanks : state0[i] = EMPTY}),
                tank_cycle_counter |-> [i \in Tanks |-> 1],
                ready_at |-> [i \in Tanks |-> None],
                settle_end_at |-> [i \in Tanks |-> None],
                lab_start_at |-> [i \in Tanks |-> None],
                ready_for_fill_at |-> [i \in Tanks |-> DatetimeMin],
                feed_start_volume |-> [i \in Tanks |-> 0],
                tank_feed_start_time |-> [i \in Tanks |-> None],
                tank_mix |-> [i \in Tanks |-> [x \in Crudes |-> 0]],
                tank_mix_pct |-> [i \in Tanks |-> [x \in Crudes |-> None]],
                no_feed_alert_logged |-> FALSE, tank_filled_first |-> {},
                active |-> 1,
                berths |-> [b \in Berths |-> [free_at |-> 0, current_cargo |-> None]],
                active_fills |-> << >>, cargos |-> << >>,
                cargo_remaining_volume |-> << >>,
                cargo_to_tank_assignments |-> << >>,
                daily_log_rows |-> << >>, daily_summary_rows |-> << >>,
                snapshot_log |-> << >>, infeasible |-> FALSE, infeasible_reason |-> "",
                raised |-> FALSE ]
        s1 == ChangeState(s0, 1, FEEDING, 0)
        s2 == [s1 EXCEPT !.bbl[1] = Min(@, usable)]
        s3 == [s2 EXCEPT !.feed_start_volume[1] = s2.bbl[1]]
        s4 == LogEvent(s3, 0, "Info", "SIM_START", None, None)
        s5 == [LogEvent(s4, 0, "Info", "FEED_START", 1, None)
                  EXCEPT !.tank_feed_start_time[1] = 0]
        s6 == LogEvent(s5, 0, "Info", "CONFIG", None, None)
    IN IF c.use_optimized_schedule
       THEN LET s7 == [LogEvent(s6, 0, "Info", "SOLVER_INIT", None, None)
                          EXCEPT !.cargo_to_tank_assignments = InitializeSolverPlan(c)]
                cs == LoadSolverCargos(c)
            IN [s7 EXCEPT !.cargos = cs,
                          !.cargo_remaining_volume = [k \in 1..Len(cs) |-> cs[k].volume]]
       ELSE s6

\* ------------------------------------------------------------------ driver
simulation_end_dt == hours(cfg.horizon_hours)
snapshot_interval_minutes == cfg.snapshot_interval_minutes
DayStart(d) == d * Day
DayEnd(d) == Min(DayStart(d) + Day, simulation_end_dt)
snapshot_interval == snapshot_interval_minutes * Minute

\* math.ceil(horizon_days)
max_days == (cfg.horizon_hours + HoursPerDay - 1) \div HoursPerDay

Init ==
    \E c \in Configs : \E s \in {Construct(c)} :
        /\ cfg = c
        /\ pc = "run"
        /\ day_index = 0
        /\ now = 0
        /\ step_end = 0
        /\ next_snapshot = 0
        /\ total_processed_today = 0
        /\ processed_this_step = 0
        /\ step_start = 0
        /\ true_opening_stock = 0
        /\ certified_stock = 0
        /\ initial_stock = TotalStock(s)
        /\ use_solver_plan = s.use_solver_plan
        /\ state = s.state
        /\ state_history = s.state_history
        /\ bbl = s.bbl
        /\ daily_consumption = s.daily_consumption
        /\ initially_empty_tanks = s.initially_empty_tanks
        /\ tank_cycle_counter = s.tank_cycle_counter
        /\ ready_at = s.ready_at
        /\ settle_end_at = s.settle_end_at
        /\ lab_start_at = s.lab_start_at
        /\ ready_for_fill_at = s.ready_for_fill_at
        /\ feed_start_volume = s.feed_start_volume
        /\ tank_feed_start_time = s.tank_feed_start_time
        /\ tank_mix = s.tank_mix
        /\ tank_mix_pct = s.tank_mix_pct
        /\ no_feed_alert_logged = s.no_feed_alert_logged
        /\ tank_filled_first = s.tank_filled_first
        /\ active = s.active
        /\ berths = s.berths
        /\ active_fills = s.active_fills
        /\ cargos = s.cargos
        /\ cargo_remaining_volume = s.cargo_remaining_volume
        /\ cargo_to_tank_assignments = s.cargo_to_tank_assignments
        /\ daily_log_rows = s.daily_log_rows
        /\ daily_summary_rows = s.daily_summary_rows
        /\ snapshot_log = s.snapshot_log
        /\ infeasible = s.infeasible
        /\ infeasible_reason = s.infeasible_reason

\* run(): the loop over the days (lines 1287-1308), left when the flag
\* infeasible is found set before the first day or after any day.
RunLoop ==
    /\ pc = "run"
    /\ pc' = IF ~infeasible /\ day_index < max_days /\ DayStart(day_index) < simulation_end_dt
             THEN "day_open" ELSE "done"
    /\ UNCHANGED << cfg, day_index, now, step_end, next_snapshot, total_processed_today,
                    processed_this_step, step_start, true_opening_stock, certified_stock,
                    initial_stock, simvars >>

\* simulate_day() up to its tick loop (lines 1092-1177).
DayOpen ==
    /\ pc = "day_open"
    /\ \E gaps \in GapDraws(Sim) :
        LET day_start == DayStart(day_index)
            s1 == PromoteReadyTanks(Sim, day_start)
            s2 == [s1 EXCEPT !.daily_consumption = [i \in Tanks |-> 0]]
            s3 == LogEvent(s2, day_start, "Info", "DAILY_STATUS", None, None)
            s4 == ScheduleCargos(s3, day_start, gaps)
        IN /\ Becomes(s4)
           /\ certified_stock' = SumStockReadyAndFeeding(s2)
           /\ true_opening_stock' = TotalStock(s2)
           /\ pc' = IF s4.raised THEN "raised" ELSE "loop"
           /\ now' = day_start
           /\ next_snapshot' = day_start
           /\ total_processed_today' = 0
    /\ UNCHANGED << cfg, day_index, step_end, processed_this_step, step_start, initial_stock >>

\* _log_tank_snapshot
LogTankSnapshot(s, t) ==
    [s EXCEPT !.snapshot_log = Append(@, [Timestamp |-> FormatTimestamp(t),
                                          bbl |-> s.bbl, state |-> s.state])]

\* The head of the tick loop and the snapshot (lines 1179-1188).
LoopHead ==
    /\ pc = "loop"
    /\ IF now < DayEnd(day_index) /\ ~(now >= simulation_end_dt)
       THEN /\ pc' = "promote"
            /\ IF now >= next_snapshot
               THEN /\ Becomes(LogTankSnapshot(Sim, now))
                    /\ next_snapshot' = next_snapshot + snapshot_interval
               ELSE /\ UNCHANGED simvars
                    /\ UNCHANGED next_snapshot
       ELSE /\ pc' = "day_close"
            /\ UNCHANGED simvars
            /\ UNCHANGED next_snapshot
    /\ UNCHANGED << cfg, day_index, now, step_end, total_processed_today,
                    processed_this_step, step_start, true_opening_stock, certified_stock,
                    initial_stock >>

DriverUnchanged ==
    UNCHANGED << cfg, day_index, now, step_end, next_snapshot, total_processed_today,
                 processed_this_step, step_start, true_opening_stock, certified_stock,
                 initial_stock >>

\* The draws of one call of _maybe_finish_fill: one schedule check per cargo
\* that completes its discharge, so no more checks than fills that are due.
FinishDraws(s, t) ==
    LET due == Cardinality({n \in 1..Len(s.active_fills) : t >= s.active_fills[n].end_time})
        unread == [k \in 1..Len(s.cargos) |-> s.cfg.berth_gap_hours_min]
    IN { d \in [1..NumBerths -> GapDraws(s)] : \A n \in 1..NumBerths : n > due => d[n] = unread }

\* _promote_ready_tanks(now), before the step (line 1191) and after it (line 1217).
Promote ==
    /\ pc \in {"promote", "promote2"}
    /\ Becomes(PromoteReadyTanks(Sim, now))
    /\ pc' = IF pc = "promote" THEN "finish" ELSE "loop"
    /\ DriverUnchanged

\* _maybe_finish_fill(now), before the step (line 1193) and after it (line 1214).
FinishFill ==
    /\ pc \in {"finish", "finish2"}
    /\ \E draws \in FinishDraws(Sim, now) :
           Becomes(MaybeFinishFill(Sim, now, draws))
    /\ pc' = IF pc = "finish" THEN "ensure" ELSE "promote2"
    /\ DriverUnchanged

\* _ensure_feeding(now) (line 1195)
EnsureFeedingStep ==
    /\ pc = "ensure"
    /\ Becomes(EnsureFeeding(Sim, now))
    /\ pc' = "start"
    /\ DriverUnchanged

\* _maybe_start_fill(now) and the end of the step (lines 1196-1207).
StartFill ==
    /\ pc = "start"
    /\ Becomes(MaybeStartFill(Sim, now))
    /\ LET e == Min(Min(DayEnd(day_index), now + snapshot_interval), simulation_end_dt)
       IN /\ step_end' = e
          /\ pc' = IF now >= e THEN "day_close" ELSE "consume"
    /\ UNCHANGED << cfg, day_index, now, next_snapshot, total_processed_today,
                    processed_this_step, step_start, true_opening_stock, certified_stock,
                    initial_stock >>

\* _consume_hour(now, step_end) and the clock (lines 1209-1212).
Consume ==
    /\ pc = "consume"
    /\ LET r == ConsumeHour(Sim, now, step_end)
       IN /\ Becomes(r.sim)
          /\ processed_this_step' = r.processed
          /\ total_processed_today' = total_processed_today + r.processed
    /\ step_start' = now
    /\ now' = step_end
    /\ pc' = "finish2"
    /\ UNCHANGED << cfg, day_index, step_end, next_snapshot, true_opening_stock,
                    certified_stock, initial_stock >>

\* A DAILY_END stamped with the day's end itself.
LogTimestampAtDayEnd(t, day_end) == day_end

\* log_timestamp of DAILY_END (line 1252): one minute before the day's end
\* once the clock has reached it.
LogTimestamp(t, day_end) == IF t < day_end THEN Min(t, day_end) ELSE day_end - Minute

\* simulate_day() after its tick loop (lines 1220-1284).
DayClose ==
    /\ pc = "day_close"
    /\ LET day_end == DayEnd(day_index)
           log_timestamp == LogTimestamp(now, day_end)
           s1 == LogEvent(Sim, log_timestamp, "Info", "DAILY_END", None, None)
           row == [Date |-> FormatTimestamp(DayStart(day_index)),
                   opening |-> true_opening_stock, cert |-> certified_stock,
                   uncert |-> true_opening_stock - certified_stock,
                   processing |-> total_processed_today,
                   closing |-> TotalStock(s1),
                   ready |-> CountState(s1, READY), empty |-> CountState(s1, EMPTY),
                   states |-> s1.state]
       IN Becomes([s1 EXCEPT !.daily_summary_rows = Append(@, row)])
    /\ day_index' = day_index + 1
    /\ pc' = "run"
    /\ UNCHANGED << cfg, now, step_end, next_snapshot, total_processed_today,
                    processed_this_step, step_start, true_opening_stock, certified_stock,
                    initial_stock >>

Next ==
    \/ RunLoop
    \/ DayOpen
    \/ LoopHead
    \/ Promote
    \/ FinishFill
    \/ EnsureFeedingStep
    \/ StartFill
    \/ Consume
    \/ DayClose

Spec == Init /\ [][Next]_vars

\* -------------------------------------------------------------- properties
\* The driver stands between two steps: after construction, at the head of
\* the tick loop, and between two days.
AtTickBoundary == pc \in {"run", "loop"}

\* The volume of all the fills a cargo has recorded (the fourth component of
\* the entries of tank_fills, line 593).
RECURSIVE SumVolumes(_)
SumVolumes(fills) == IF fills = << >> THEN 0 ELSE Head(fills).volume + SumVolumes(Tail(fills))

\* The volume recorded as discharged by all cargos.
Discharged ==
    SumOver([k \in 1..Len(cargos) |-> SumVolumes(cargos[k].tank_fills)], 1..Len(cargos))

\* The volume processed so far: the closed days (the Processing column of the
\* daily summary, line 1278) and, inside a day, the day's running total.
TotalProcessed ==
    SumOver([n \in 1..Len(daily_summary_rows) |-> daily_summary_rows[n].processing],
            1..Len(daily_summary_rows))
    + (IF pc \in {"run", "day_open", "done"} THEN 0 ELSE total_processed_today)

\* The active-fill entries of a cargo, and those that target a tank.
FillsOfCargo(k) == {n \in 1..Len(active_fills) : active_fills[n].vessel = k}
FillsIntoTank(i) == {n \in 1..Len(active_fills) : active_fills[n].tid = i}

\* C1: at every tick boundary exactly one tank is FEEDING, or no tank is and the
\* halt flag is held.
ExactlyOneFeedingOrHalt ==
    AtTickBoundary =>
        LET n == CountState(Sim, FEEDING)
        IN n <= 1 /\ (n = 0 => no_feed_alert_logged)

\* C2: every tank's stored usable volume lies between 0 and usable_per_tank,
\* after construction and after every step, for every initial level.
VolumeWithinCapacity == \A i \in Tanks : 0 <= bbl[i] /\ bbl[i] <= usable

\* C3: at every tick the tanks hold the initial stock plus what the cargos
\* recorded as discharged minus what was processed.
InventoryConserved ==
    pc = "loop" => TotalStock(Sim) = initial_stock + Discharged - TotalProcessed

\* C4: for every cargo the volumes of its recorded fills plus its remaining
\* volume equal its total volume within 1 bbl.
CargoVolumeAccounted ==
    \A k \in 1..Len(cargos) :
        LET d == SumVolumes(cargos[k].tank_fills) + cargo_remaining_volume[k] - cargos[k].volume
        IN -MinVolume <= d /\ d <= MinVolume

\* C4 witness: a cargo discharged over two tanks, the second fill completed
\* and nothing left on board.
CargoVolumeAccountedWitness ==
    \E k \in 1..Len(cargos) :
        /\ Len(cargos[k].tank_fills) >= 2
        /\ cargo_remaining_volume[k] = 0
        /\ cargos[k].discharge_end # None

\* C5: a cargo has at most one active fill; every fill it has started and not
\* completed is its entry of the active-fill table, so a fill is started only
\* when the cargo has no entry and a completed fill's entry is removed before
\* the next one is started.
OneActiveFillPerCargo ==
    \A k \in 1..Len(cargos) :
        /\ Cardinality(FillsOfCargo(k)) <= 1
        /\ cargos[k].tanks_started - cargos[k].tanks_done = Cardinality(FillsOfCargo(k))

\* C5 witness: a cargo's second fill is active after its first was completed.
OneActiveFillPerCargoWitness ==
    \E k \in 1..Len(cargos) :
        /\ cargos[k].tanks_done >= 1
        /\ cargos[k].tanks_started = cargos[k].tanks_done + 1
        /\ HasActiveFill(Sim, k)

\* C6: a tank is FILLING if and only if exactly one active fill targets it, and
\* no tank is the target of two; the feeding tank is never a target.
FillingIffOneActiveFill ==
    \A i \in Tanks :
        /\ Cardinality(FillsIntoTank(i)) <= 1
        /\ (state[i] = FILLING) <=> (Cardinality(FillsIntoTank(i)) = 1)
        /\ (state[i] = FEEDING) => FillsIntoTank(i) = {}

\* C6 witness: two cargos, one per berth, discharge at once into two tanks.
FillingIffOneActiveFillWitness ==
    \E m, n \in 1..Len(active_fills) :
        /\ active_fills[m].vessel # active_fills[n].vessel
        /\ cargos[active_fills[m].vessel].berth # cargos[active_fills[n].vessel].berth
        /\ active_fills[m].tid # active_fills[n].tid
        /\ state[active_fills[m].tid] = FILLING
        /\ state[active_fills[n].tid] = FILLING

\* C7: no step of h hours processes more than rate_per_hour * h, a handover
\* inside the step included, and the run processes no more than
\* processing_rate * horizon_days.
ProcessingRateCeiling ==
    /\ processed_this_step * Hour <= rate_hour * (now - step_start)
    /\ TotalProcessed * HoursPerDay <= rate_day * cfg.horizon_hours

\* C7 witness: the first step of a day in which the feeding tank ran empty and
\* another tank took the feed over, the two together at the full rate.
ProcessingRateCeilingWitness ==
    /\ pc = "finish2"
    /\ processed_this_step * Hour = rate_hour * (now - step_start)
    /\ active \in Tanks
    /\ \E i \in Tanks :
        /\ i # active
        /\ state[i] = EMPTY
        /\ daily_consumption[i] > 0
        /\ daily_consumption[active] > 0
        /\ daily_consumption[i] + daily_consumption[active] = processed_this_step

\* C8: in the event log PROCESSING_HALT and PROCESSING_RESUME alternate,
\* starting with PROCESSING_HALT.
HaltResumeAlternate ==
    LET ev == SelectSeq(daily_log_rows,
                        LAMBDA r : r.Event \in {"PROCESSING_HALT", "PROCESSING_RESUME"})
    IN \A n \in 1..Len(ev) :
        ev[n].Event = IF n % 2 = 1 THEN "PROCESSING_HALT" ELSE "PROCESSING_RESUME"

\* C9: when every tank starts empty, the log of the finished run holds a
\* PROCESSING_HALT stamped with the start of the simulation, and, once a tank
\* was promoted to READY, a PROCESSING_RESUME stamped with the first tick at or
\* after the promotion.
HaltAtStartWhenAllEmpty ==
    (pc = "done" /\ \A i \in Tanks : InitialUsable(cfg.initial_tank_levels[i]) = 0) =>
        LET rows == {daily_log_rows[n] : n \in 1..Len(daily_log_rows)}
            ready == {r \in rows : r.Event = "READY"}
        IN /\ \E r \in rows : r.Event = "PROCESSING_HALT" /\ r.Timestamp = FormatTimestamp(0)
           /\ \A r \in ready :
                (\A q \in ready : r.Timestamp <= q.Timestamp) =>
                    LET tick == ((r.Timestamp + snapshot_interval_minutes - 1)
                                     \div snapshot_interval_minutes) * snapshot_interval_minutes
                    IN tick * Minute < simulation_end_dt =>
                        \E q \in rows : q.Event = "PROCESSING_RESUME" /\ q.Timestamp = tick

\* C10: of two cargos that used the same berth, the later one arrived at
\* least berth_gap_hours_min after the earlier one's discharge ended.
BerthGapRespected ==
    \A j, k \in 1..Len(cargos) :
        (j # k /\ cargos[j].berth = cargos[k].berth
             /\ cargos[j].dispatched /\ cargos[k].dispatched) =>
            \/ /\ cargos[j].discharge_end # None
               /\ cargos[k].arrival >= cargos[j].discharge_end + hours(cfg.berth_gap_hours_min)
            \/ /\ cargos[k].discharge_end # None
               /\ cargos[j].arrival >= cargos[k].discharge_end + hours(cfg.berth_gap_hours_min)

\* C10 witness: with a positive minimum gap, a cargo was dispatched to a berth
\* after an earlier cargo had completed its discharge there.
BerthGapRespectedWitness ==
    /\ cfg.berth_gap_hours_min > 0
    /\ \E j, k \in 1..Len(cargos) :
        /\ j # k
        /\ cargos[j].berth = cargos[k].berth
        /\ cargos[j].dispatched /\ cargos[k].dispatched
        /\ cargos[j].discharge_end # None
        /\ cargos[k].arrival >= cargos[j].discharge_end + hours(cfg.berth_gap_hours_min)

\* ----------------------------------------------------------------- output
\* list.sort with the key of line 1437 is stable: the row goes behind every
\* row whose Timestamp (the instant cut to the minute) is not later than its
\* own.  order holds positions of rows, sorted so far.
RECURSIVE InsertByTimestamp(_, _, _)
InsertByTimestamp(rows, order, n) ==
    IF order = << >> \/ rows[order[Len(order)]].Timestamp <= rows[n].Timestamp
    THEN Append(order, n)
    ELSE Append(InsertByTimestamp(rows, SubSeq(order, 1, Len(order) - 1), n), order[Len(order)])

RECURSIVE SortedOrder(_, _, _)
SortedOrder(rows, order, n) ==
    IF n > Len(rows) THEN order
    ELSE SortedOrder(rows, InsertByTimestamp(rows, order, n), n + 1)

\* _sort_log_chronologically, and the same sort of the /simulate handler
\* before the log is written out.
SortLogChronologically(rows) ==
    LET order == SortedOrder(rows, << >>, 1)
    IN [p \in 1..Len(rows) |-> [row |-> rows[order[p]], inserted |-> order[p]]]

\* ------------------------------------------------------------- properties
\* The cargos seated on a berth whose discharge is not complete.
SeatedOn(b) ==
    {k \in 1..Len(cargos) : cargos[k].berth = b /\ cargos[k].dispatched
                               /\ cargo_remaining_volume[k] > MinVolume}

\* The cargos that completed their discharge on a berth.
CompletedOn(b) ==
    {k \in 1..Len(cargos) : cargos[k].berth = b /\ cargos[k].dispatched
                               /\ cargo_remaining_volume[k] <= MinVolume}

\* C11: a berth holds at most one cargo whose discharge is incomplete, and that
\* cargo is the berth's current cargo; the berth is free exactly when every
\* cargo seated on it has completed, and free_at is then the discharge end of
\* the cargo that left it last.
BerthHoldsOneCargo ==
    \A b \in Berths :
        /\ Cardinality(SeatedOn(b)) <= 1
        /\ (berths[b].current_cargo = None) <=> (SeatedOn(b) = {})
        /\ berths[b].current_cargo # None => berths[b].current_cargo \in SeatedOn(b)
        /\ \A k \in CompletedOn(b) :
               cargos[k].discharge_end # None /\ berths[b].free_at >= cargos[k].discharge_end
        /\ CompletedOn(b) # {} =>
               \E k \in CompletedOn(b) : berths[b].free_at = cargos[k].discharge_end

\* C11 witness: a berth that one cargo has left holds the next one, while
\* another cargo still waits for it.
BerthHoldsOneCargoWitness ==
    \E b \in Berths :
        /\ CompletedOn(b) # {}
        /\ berths[b].current_cargo # None
        /\ cargo_remaining_volume[berths[b].current_cargo] > MinVolume

\* The number of READY rows of a tank among the first n rows of the log.
ReadyRowsBefore(i, n) ==
    Cardinality({m \in 1..n : daily_log_rows[m].Event = "READY" /\ daily_log_rows[m].Tank = i})

\* C12: a tank's cycle number is 1 plus the number of its READY promotions so
\* far; the k-th READY row of a tank carries k, and every FILL_START_FIRST,
\* FILL_FINAL_END, SETTLING_START and SETTLING_END row of the tank carries the
\* number of the READY row that closes its cycle (the rows of no cycle event
\* carry no number).
CycleNumberCountsPromotions ==
    /\ \A i \in Tanks :
           tank_cycle_counter[i] = 1 + ReadyRowsBefore(i, Len(daily_log_rows))
    /\ \A n \in 1..Len(daily_log_rows) :
           LET r == daily_log_rows[n] IN
           IF r.Event \in cycle_events /\ r.Tank # None
           THEN r.Cycle = 1 + ReadyRowsBefore(r.Tank, n - 1)
           ELSE r.Cycle = 0

\* C12 witness: a tank in its second cycle, with FILL_START_FIRST,
\* FILL_FINAL_END, SETTLING_START, SETTLING_END and READY rows numbered 1 and
\* a FILL_START_FIRST row numbered 2.
CycleNumberCountsPromotionsWitness ==
    \E i \in Tanks :
        /\ tank_cycle_counter[i] = 2
        /\ \A e \in cycle_events :
               \E n \in 1..Len(daily_log_rows) :
                   daily_log_rows[n].Event = e /\ daily_log_rows[n].Tank = i /\ daily_log_rows[n].Cycle = 1
        /\ \E n \in 1..Len(daily_log_rows) :
               /\ daily_log_rows[n].Event = "FILL_START_FIRST"
               /\ daily_log_rows[n].Tank = i /\ daily_log_rows[n].Cycle = 2

\* Row n of the log starts a fill into tank i.
IsFillStart(n, i) ==
    daily_log_rows[n].Tank = i /\ daily_log_rows[n].Event \in {"FILL_START", "FILL_START_FIRST"}

\* Row n of the log records tank i becoming EMPTY, by either path of
\* _consume_hour (drained within the step, or found with nothing to feed).
IsEmptied(n, i) ==
    daily_log_rows[n].Tank = i /\ daily_log_rows[n].Event \in {"TANK_EMPTY", "FEED_ERROR"}

\* C13: a fill start of a tank is logged FILL_START_FIRST exactly when no
\* other fill of the tank was started since the tank last became EMPTY;
\* otherwise it is logged FILL_START.
FirstFillAfterEmpty ==
    \A i \in Tanks : \A n \in 1..Len(daily_log_rows) :
        IsFillStart(n, i) =>
            LET earlier == \E m \in 1..(n - 1) :
                               /\ IsFillStart(m, i)
                               /\ \A e \in (m + 1)..(n - 1) : ~IsEmptied(e, i)
            IN daily_log_rows[n].Event = (IF earlier THEN "FILL_START" ELSE "FILL_START_FIRST")

\* The instants the log and the history mention.
QueryTimes ==
    {state_history[k].when : k \in 1..Len(state_history)}
        \cup {daily_log_rows[n].Instant : n \in 1..Len(daily_log_rows)}

\* The history entries of tank i with time <= ts.
EntriesUpTo(i, ts) ==
    {k \in 1..Len(state_history) : state_history[k].tank = i /\ state_history[k].when <= ts}

\* The state the history gives tank i at ts: that of the latest entry with
\* time <= ts, the later inserted when times are equal; the state the tank
\* started in when there is no such entry.
StateAt(i, ts) ==
    IF EntriesUpTo(i, ts) = {}
    THEN IF InitialUsable(cfg.initial_tank_levels[i]) <= 0 THEN EMPTY ELSE READY
    ELSE LET k == CHOOSE x \in EntriesUpTo(i, ts) :
                      \A y \in EntriesUpTo(i, ts) :
                          \/ state_history[y].when < state_history[x].when
                          \/ state_history[y].when = state_history[x].when /\ y <= x
         IN state_history[k].state

\* C14: at every instant the query returns, for every tank, the state of the
\* last history entry with time <= ts, or the tank's initial state.
QueryReturnsLastEntry ==
    \A ts \in QueryTimes : \A i \in Tanks : GetStateAtTime(Sim, ts)[i] = StateAt(i, ts)

\* C15: when the run is over, the state columns of every row of the event log
\* equal the state-at-time query on the final history at the row's instant.
StateColumnsReplayHistory ==
    pc = "done" =>
        \A n \in 1..Len(daily_log_rows) :
            daily_log_rows[n].States = GetStateAtTime(Sim, daily_log_rows[n].Instant)

\* C16: in the log as it is written out, two events of different instants
\* stand in the order of their instants, and two events of the same timestamp
\* stand in the order they were logged in.
OutputOrderedByInstant ==
    pc = "done" =>
        LET out == SortLogChronologically(daily_log_rows)
        IN \A p \in 1..Len(out) : \A q \in (p + 1)..Len(out) :
               /\ out[p].row.Instant # out[q].row.Instant => out[p].row.Instant < out[q].row.Instant
               /\ out[p].row.Timestamp = out[q].row.Timestamp => out[p].inserted < out[q].inserted

\* The minutes start + k * snapshot_interval that lie before the horizon end.
SnapshotGrid ==
    {m \in 0..(simulation_end_dt \div Minute) :
        m % snapshot_interval_minutes = 0 /\ m * Minute < simulation_end_dt}

\* C17: when the run is over, the snapshots taken are those of the instants
\* start + k * snapshot_interval before the horizon end, one for each.
SnapshotsOnGrid ==
    pc = "done" =>
        /\ {snapshot_log[n].Timestamp : n \in 1..Len(snapshot_log)} = SnapshotGrid
        /\ Len(snapshot_log) = Cardinality(SnapshotGrid)

\* The rows of the log of one event whose instant lies in [from, to].
RowsOf(event, from, to) ==
    {n \in 1..Len(daily_log_rows) :
        /\ daily_log_rows[n].Event = event
        /\ from <= daily_log_rows[n].Instant /\ daily_log_rows[n].Instant <= to}

RunEndsAtHorizon ==
    /\ pc \in {"done", "raised"} => pc = "done" /\ now = simulation_end_dt
    /\ pc = "consume" =>
           now < step_end /\ step_end <= DayEnd(day_index) /\ step_end <= simulation_end_dt

\* The rows of the log of one event of a cargo.
CargoRows(event, k) ==
    {n \in 1..Len(daily_log_rows) :
        daily_log_rows[n].Event = event /\ daily_log_rows[n].Cargo = k}

\* The cargos the sequential rule fills (no tank assignment of a plan) that
\* have completed their discharge.
SequentialCompleted ==
    {k \in 1..Len(cargos) :
        cargo_to_tank_assignments[k] = << >> /\ cargos[k].discharge_end # None}

TankRows(event, i) ==
    {n \in 1..Len(daily_log_rows) :
        daily_log_rows[n].Event = event /\ daily_log_rows[n].Tank = i}

\* C22: with lab_hours = 0 no tank is ever in LAB, now or in the history; once
\* _promote_ready_tanks has run at a tick no tank is left SETTLING with
\* settle_end_at <= now; and every promotion goes from the end of settling
\* straight to READY, raising the cycle number by one.
NoLabWhenLabHoursZero ==
    cfg.lab_hours = 0 =>
        /\ \A i \in Tanks : state[i] # LAB
        /\ \A k \in 1..Len(state_history) : state_history[k].state # LAB
        /\ pc \in {"loop", "finish"} =>
               \A i \in Tanks :
                   state[i] = SETTLING => settle_end_at[i] # None /\ settle_end_at[i] > now
        /\ \A i \in Tanks :
               /\ Cardinality(TankRows("READY", i)) = Cardinality(TankRows("SETTLING_END", i))
               /\ tank_cycle_counter[i] = 1 + Cardinality(TankRows("READY", i))

\* C22 witness: with lab_hours = 0 a tank that settled has been promoted to
\* READY and is in its second cycle.
NoLabWhenLabHoursZeroWitness ==
    /\ cfg.lab_hours = 0
    /\ \E i \in Tanks :
           /\ TankRows("SETTLING_START", i) # {}
           /\ TankRows("READY", i) # {}
           /\ tank_cycle_counter[i] = 2

\* C23: at every tick boundary a tank whose ready_at timer is set is SETTLING
\* or LAB; a READY, FEEDING, EMPTY, FILLING or SUSPENDED tank has none.
ReadyTimerOnlyWhileMaturing ==
    AtTickBoundary =>
        \A i \in Tanks : ready_at[i] # None => state[i] \in {SETTLING, LAB}

\* C23 witness: at a tick boundary one tank is in LAB with its timer pending
\* while another, promoted earlier, is READY or FEEDING with the timer cleared.
ReadyTimerOnlyWhileMaturingWitness ==
    /\ AtTickBoundary
    /\ \E i, j \in Tanks :
           /\ state[i] = LAB /\ ready_at[i] # None
           /\ state[j] \in {READY, FEEDING} /\ tank_cycle_counter[j] > 1 /\ ready_at[j] = None

\* The rows of the log that put a tank on feed.
FeedRows ==
    {n \in 1..Len(daily_log_rows) : daily_log_rows[n].Event \in {"FEED_START", "FEED_CHANGEOVER"}}

\* The tank that was put on feed most recently (0 before the first).
LastFedTank ==
    IF FeedRows = {} THEN 0
    ELSE daily_log_rows[CHOOSE n \in FeedRows : \A m \in FeedRows : m <= n].Tank

\* The place of tank j in the cyclic order 1 -> 2 -> ... -> N -> 1 counted
\* from the tank after f.
CyclicDistance(f, j) == (j - f - 1) % NumTanks

\* C26: a tank that a step puts on feed is the first READY tank in the cyclic
\* order after the tank that was feeding most recently, at a direct handover
\* and after a halt alike.
FeedsNextInCyclicOrder ==
    [][\A j \in Tanks :
          (state[j] # FEEDING /\ state'[j] = FEEDING) =>
              /\ state[j] = READY
              /\ \A i \in Tanks :
                     state[i] = READY => CyclicDistance(LastFedTank, j) <= CyclicDistance(LastFedTank, i)]_vars

\* No tank holds anything to feed and the halt has been logged.
StockDepleted ==
    /\ \A i \in Tanks : bbl[i] = 0
    /\ no_feed_alert_logged

\* C24: in a run with no cargo type enabled no call raises, and once the
\* stock is depleted the flag infeasible is set with a reason and no further
\* day is simulated.
NoCargoTypeEndsInfeasible ==
    DOMAIN cfg.cargo_defs = {} =>
        /\ pc # "raised"
        /\ StockDepleted /\ AtTickBoundary => infeasible /\ infeasible_reason # ""
        /\ ~(StockDepleted /\ pc = "day_open")

\* The transitions of the table of tank states.
TableTransitions ==
    { << EMPTY, FILLING >>, << SUSPENDED, FILLING >>, << FILLING, SUSPENDED >>,
      << FILLING, FILLED >>, << FILLED, SETTLING >>, << SETTLING, LAB >>,
      << LAB, READY >>, << READY, FEEDING >>, << FEEDING, EMPTY >> }
        \cup (IF cfg.lab_hours = 0 THEN { << SETTLING, READY >> } ELSE {})

\* The state the normalisation of the initial levels leaves tank i in (lines
\* 86-91), before the constructor selects the feeding tank.
StateAtConstruction(i) ==
    IF InitialUsable(cfg.initial_tank_levels[i]) <= 0 THEN EMPTY ELSE READY

\* The states _change_state gave tank i, in the order of the calls, after the
\* state the tank was constructed in.
StatesOf(i) ==
    << StateAtConstruction(i) >> \o
        [n \in 1..Len(SelectSeq(state_history, LAMBDA e : e.tank = i)) |->
            SelectSeq(state_history, LAMBDA e : e.tank = i)[n].state]

\* C25: every state change of a tank, the selection of the initial feeding
\* tank by the constructor included, is a transition of the table; a tank
\* becomes FEEDING only from READY.
ChangesFollowTable ==
    \A i \in Tanks : \A n \in 1..(Len(StatesOf(i)) - 1) :
        << StatesOf(i)[n], StatesOf(i)[n + 1] >> \in TableTransitions

\* What the READY tanks can give once on feed: a takeover caps the volume of
\* the tank at usable (line 962).
ReadyVolume ==
    SumOver([i \in Tanks |-> Min(bbl[i], usable)], {i \in Tanks : state[i] = READY})

\* C27: a consumption step of h hours that starts with a feeding tank holding
\* something processes min(rate_per_hour * h, volume of the feeding tank +
\* volumes of the READY tanks): when the feeding tank empties within the step
\* the READY tanks take over one after the other for the rest of the step.
StepProcessesThroughReadyTanks ==
    [][(pc = "consume" /\ active # 0 /\ state[active] = FEEDING /\ bbl[active] > 0) =>
          processed_this_step' =
              Min(VolumeIn(rate_hour, step_end - now), bbl[active] + ReadyVolume)]_vars

\* C28: no consumption step starts with the FEEDING tank holding nothing, and
\* no FEED_ERROR row is ever logged.
FeedingTankHoldsVolume ==
    /\ (pc = "consume" /\ active # 0 /\ state[active] = FEEDING) => bbl[active] > 0
    /\ \A n \in 1..Len(daily_log_rows) : daily_log_rows[n].Event # "FEED_ERROR"

\* The rows of one event, whatever the tank.
EventRows(event) == {n \in 1..Len(daily_log_rows) : daily_log_rows[n].Event = event}

\* C29: PROCESSING_HALT is logged at an instant t only if no tank is ready
\* at t: a tank whose ready time (the instant of its READY row) lies before t
\* has been put on feed between its ready time and t.
HaltOnlyWithoutReadyTank ==
    \A h \in EventRows("PROCESSING_HALT") : \A r \in EventRows("READY") :
        daily_log_rows[r].Instant < daily_log_rows[h].Instant =>
            \E f \in FeedRows :
                /\ daily_log_rows[f].Tank = daily_log_rows[r].Tank
                /\ daily_log_rows[r].Instant <= daily_log_rows[f].Instant
                /\ daily_log_rows[f].Instant <= daily_log_rows[h].Instant

NewlyDispatched == {k \in 1..Len(cargos) : ~cargos[k].dispatched /\ cargos'[k].dispatched}

\* The cargos whose discharge a step completes: each is followed by one
\* schedule check (line 626).
NewlyCompleted ==
    {k \in 1..Len(cargos) : cargos[k].discharge_end = None /\ cargos'[k].discharge_end # None}

\* The schedule checks of a step: one at the start of a day (line 1163), one
\* per discharge completed.
ScheduleChecks == IF pc = "day_open" THEN 1 ELSE Cardinality(NewlyCompleted)

\* C31: in solver mode a step dispatches no more cargos than it makes
\* schedule checks; a cargo is dispatched onto a berth nothing else holds,
\* with arrival = berth.free_at + a gap of the configured interval, not after
\* the clock, and fill start = arrival + pre-discharge delay; and no cargo is
\* dispatched while an earlier cargo of the list for the same berth is pending.
SolverDispatchInOrder ==
    [][cfg.use_optimized_schedule =>
          /\ Cardinality(NewlyDispatched) <= ScheduleChecks
          /\ \A k \in NewlyDispatched :
                 LET b == cargos[k].berth IN
                 /\ berths[b].current_cargo = None \/ berths[b].current_cargo \in NewlyCompleted
                 /\ berths'[b].current_cargo = k
                 /\ \E g \in GapChoices(cfg) : cargos'[k].arrival = berths'[b].free_at + hours(g)
                 /\ cargos'[k].arrival <= now'
                 /\ cargos'[k].fill_start = cargos'[k].arrival + hours(cfg.fill_delay_hours)
                 /\ \A j \in 1..(k - 1) : cargos[j].berth = b => cargos'[j].dispatched]_vars

\* The rows that record the start of a fill of tank i.
FillStartRows(i) == TankRows("FILL_START", i) \cup TankRows("FILL_START_FIRST", i)

\* The rows that record that tank i emptied.
EmptiedRows(i) == TankRows("TANK_EMPTY", i) \cup TankRows("FEED_ERROR", i)

\* The instant of the last state change of tank i.
LastChangeOf(i) ==
    LET h == SelectSeq(state_history, LAMBDA e : e.tank = i)
    IN IF h = << >> THEN DatetimeMin ELSE h[Len(h)].when

\* C32: a tank enters FILLING from EMPTY or SUSPENDED only, at an instant not
\* before its ready_for_fill_at; every fill start of a tank is at least
\* tank_gap_hours after each earlier emptying of that tank and at least
\* tank_fill_gap_hours after each earlier partial fill end of that tank.
FillsStartOnRestedTanks ==
    \A i \in Tanks :
        /\ \A p \in 1..Len(StatesOf(i)) :
               StatesOf(i)[p] = FILLING =>
                   p > 1 /\ StatesOf(i)[p - 1] \in {EMPTY, SUSPENDED}
        /\ state[i] = FILLING => LastChangeOf(i) >= ready_for_fill_at[i]
        /\ \A n \in FillStartRows(i) : \A m \in 1..(n - 1) :
               /\ m \in EmptiedRows(i) =>
                     daily_log_rows[n].Instant >=
                         daily_log_rows[m].Instant + hours(cfg.tank_gap_hours)
               /\ m \in TankRows("FILL_END", i) =>
                     daily_log_rows[n].Instant >=
                         daily_log_rows[m].Instant + hours(cfg.tank_fill_gap_hours)

\* With tank_gap_hours = 0 a fill of a tank has started at the instant the
\* tank emptied.
FillsStartOnRestedTanksWitness ==
    /\ cfg.tank_gap_hours = 0
    /\ \E i \in Tanks : \E n \in FillStartRows(i) : \E m \in TankRows("TANK_EMPTY", i) :
           m < n /\ daily_log_rows[n].Instant = daily_log_rows[m].Instant

\* The rows a step adds to the log.
NewRows == (Len(daily_log_rows) + 1)..Len(daily_log_rows')

\* The entries a step adds to the state history for tank i, in order.
NewStatesOf(i) ==
    SelectSeq(SubSeq(state_history', Len(state_history) + 1, Len(state_history')),
              LAMBDA e : e.tank = i)

\* C33: a fill of volume v that completes at e raises the tank's volume to
\* min(volume + v, usable); when the result is >= usable - 100 the tank goes
\* FILLED then SETTLING at e, settle_end_at = e + settling hours and the row
\* is FILL_FINAL_END; otherwise the tank goes SUSPENDED at e with
\* ready_for_fill_at = e + tank_fill_gap_hours and the row is FILL_END.
FillCompletionOutcome ==
    [][\A n \in NewRows :
          LET row == daily_log_rows'[n]
              tid == row.Tank
              e == row.Instant
              h == NewStatesOf(tid)
          IN row.Event \in {"FILL_END", "FILL_FINAL_END"} =>
               \E m \in 1..Len(active_fills) :
                  LET f == active_fills[m] IN
                  /\ f.tid = tid /\ f.vessel = row.Cargo /\ f.end_time = e
                  /\ state[tid] = FILLING
                  /\ bbl'[tid] = Min(bbl[tid] + f.volume, usable)
                  /\ IF bbl'[tid] >= usable - FullTolerance
                     THEN /\ row.Event = "FILL_FINAL_END"
                          /\ h = << [when |-> e, tank |-> tid, state |-> FILLED],
                                    [when |-> e, tank |-> tid, state |-> SETTLING] >>
                          /\ state'[tid] = SETTLING
                          /\ settle_end_at'[tid] = e + hours(settle_hours)
                     ELSE /\ row.Event = "FILL_END"
                          /\ Len(h) >= 1
                          /\ h[1] = [when |-> e, tank |-> tid, state |-> SUSPENDED]
                          /\ state'[tid] \in {SUSPENDED, FILLING}
                          /\ ready_for_fill_at'[tid] = e + hours(cfg.tank_fill_gap_hours)]_vars

\* A run in which one fill ended short of full and left its tank SUSPENDED
\* and another ended full and left its tank SETTLING.
FillCompletionOutcomeWitness ==
    /\ \E i \in Tanks : state[i] = SUSPENDED /\ TankRows("FILL_END", i) # {}
    /\ \E i \in Tanks : state[i] = SETTLING /\ TankRows("FILL_FINAL_END", i) # {}

\* The number of rows of S before row n of the log.
Earlier(S, n) == Cardinality({m \in S : m < n})

\* The k-th row of S in log order.
Nth(S, k) == CHOOSE n \in S : Earlier(S, n) = k - 1

\* C34: the k-th SETTLING_END row of a tank is at e + settling hours and its
\* k-th READY row at e + settling hours + lab hours, where e is the instant
\* of the tank's k-th FILL_FINAL_END row; no promotion precedes its fill; and
\* a tank that has had a full fill is put on feed no earlier than
\* e + settling hours + lab hours for the last such e.
PromotionsAtTimerInstants ==
    \A i \in Tanks :
        LET F == TankRows("FILL_FINAL_END", i)
            S == TankRows("SETTLING_END", i)
            R == TankRows("READY", i)
            e(k) == daily_log_rows[Nth(F, k)].Instant
        IN /\ Cardinality(R) <= Cardinality(S) /\ Cardinality(S) <= Cardinality(F)
           /\ \A k \in 1..Cardinality(S) :
                  /\ Nth(F, k) < Nth(S, k)
                  /\ daily_log_rows[Nth(S, k)].Instant = e(k) + hours(settle_hours)
           /\ \A k \in 1..Cardinality(R) :
                  /\ Nth(S, k) < Nth(R, k)
                  /\ daily_log_rows[Nth(R, k)].Instant =
                         e(k) + hours(settle_hours) + hours(cfg.lab_hours)
           /\ \A n \in FeedRows :
                  daily_log_rows[n].Tank = i /\ Earlier(F, n) > 0 =>
                      /\ Earlier(R, n) = Earlier(F, n)
                      /\ daily_log_rows[n].Instant >=
                             e(Earlier(F, n)) + hours(settle_hours) + hours(cfg.lab_hours)

\* A tank filled full, promoted through the lab at a tick later than its
\* ready time, and then put on feed.
PromotionsAtTimerInstantsWitness ==
    /\ cfg.lab_hours > 0
    /\ \E i \in Tanks : \E n \in FeedRows :
           /\ daily_log_rows[n].Tank = i
           /\ Earlier(TankRows("READY", i), n) > 0
           /\ daily_log_rows[Nth(TankRows("READY", i), 1)].Instant % hours(6) # 0

\* The cargos that have assignments in the plan.
PlannedCargos ==
    {k \in 1..Len(cargos) :
        k \in DOMAIN cargo_to_tank_assignments /\ cargo_to_tank_assignments[k] # << >>}

\* The rows a step adds after row n for tank x with one of the events.
LaterRows(n, x, events) ==
    {m \in NewRows : m > n /\ daily_log_rows'[m].Tank = x /\ daily_log_rows'[m].Event \in events}

\* Tank x passed the eligibility test at instant t when row n was written:
\* it was EMPTY or SUSPENDED then (it is still, or its fill started later in
\* the step) and t was not before its ready_for_fill_at.
EligibleAtRow(n, x, t) ==
    /\ LaterRows(n, x, {"FILL_END", "FILL_FINAL_END"}) = {}
    /\ t >= ready_for_fill_at'[x]
    /\ \/ state'[x] \in {EMPTY, SUSPENDED}
       \/ state'[x] = FILLING /\ LaterRows(n, x, {"FILL_START", "FILL_START_FIRST"}) # {}

\* C35: no assignment is filled beyond its planned volume; every fill
\* started by a cargo that has assignments is the fill of exactly one of
\* them, on its tank, of volume min(planned - filled so far, the cargo's
\* remaining volume, usable - the tank's volume), and every earlier
\* assignment of the list had at most 1 bbl left or a tank that was not
\* eligible; a cargo none of whose assignments is actionable starts no fill.
PlannedFillsFollowAssignments ==
    [][/\ \A k \in PlannedCargos : \A j \in 1..Len(cargo_to_tank_assignments'[k]) :
            cargo_to_tank_assignments'[k][j].filled <= cargo_to_tank_assignments'[k][j].volume
       /\ \A n \in NewRows :
            LET row == daily_log_rows'[n]
                k == row.Cargo
                tid == row.Tank
                t == row.Instant
            IN row.Event \in {"FILL_START", "FILL_START_FIRST"} /\ k \in PlannedCargos =>
                 LET old == cargo_to_tank_assignments[k]
                     new == cargo_to_tank_assignments'[k]
                     changed == {j \in 1..Len(new) : new[j].filled # old[j].filled}
                 IN /\ Cardinality(changed) = 1
                    /\ \A j \in changed :
                          LET v == new[j].filled - old[j].filled IN
                          /\ new[j].tank_id = tid
                          /\ \E m \in 1..Len(active_fills') :
                                /\ active_fills'[m].vessel = k /\ active_fills'[m].tid = tid
                                /\ active_fills'[m].volume = v
                          /\ v = Min(Min(old[j].volume - old[j].filled,
                                          cargo_remaining_volume'[k]), usable - bbl'[tid])
                          /\ \A i \in 1..(j - 1) :
                                \/ new[i].volume - new[i].filled <= MinVolume
                                \/ ~EligibleAtRow(n, new[i].tank_id, t)]_vars

\* A cargo skipped its first assignment, whose tank was not eligible, and
\* filled the tank of a later one.
PlannedFillsFollowAssignmentsWitness ==
    \E k \in PlannedCargos :
        /\ cargo_to_tank_assignments[k][1].filled = 0
        /\ \E j \in 2..Len(cargo_to_tank_assignments[k]) :
               cargo_to_tank_assignments[k][j].filled > 0

\* The assignments of the plan, as pairs << cargo, position >>.
AssignmentSlots ==
    {p \in PlannedCargos \X (1..NumTanks) : p[2] <= Len(cargo_to_tank_assignments[p[1]])}

\* The volume filled so far under assignments of tank i that name crude c.
FilledUnder(i, c) ==
    LET a(p) == cargo_to_tank_assignments[p[1]][p[2]]
    IN SumOver([p \in AssignmentSlots |->
                   IF a(p).tank_id = i /\ a(p).crude_name = c THEN a(p).filled ELSE 0],
               AssignmentSlots)

\* C36: a tank's mix holds, under each crude name, the volume filled so far
\* under the assignments of that tank that name that crude: a fill by the
\* plan is added under the crude name of the assignment being filled.
MixUnderAssignmentCrude ==
    \A i \in Tanks : \A c \in Crudes : tank_mix[i][c] = FilledUnder(i, c)

\* The instant tank i last emptied, DatetimeMin when it never did.
LastEmptiedAt(i) ==
    IF EmptiedRows(i) = {} THEN DatetimeMin
    ELSE LET n == CHOOSE x \in EmptiedRows(i) :
                      \A y \in EmptiedRows(i) :
                          daily_log_rows[y].Instant <= daily_log_rows[x].Instant
         IN daily_log_rows[n].Instant

\* The completed fills of tank i that started since it last emptied, as
\* pairs << cargo, position in the cargo's tank_fills >>.
CycleFills(i) ==
    {p \in (1..Len(cargos)) \X (1..(2 * NumTanks)) :
        /\ p[2] <= Len(cargos[p[1]].tank_fills)
        /\ cargos[p[1]].tank_fills[p[2]].tank = i
        /\ cargos[p[1]].tank_fills[p[2]].start >= LastEmptiedAt(i)}

\* The volume filled into tank i during its current cycle.
CycleFilled(i) ==
    SumOver([p \in CycleFills(i) |-> cargos[p[1]].tank_fills[p[2]].volume], CycleFills(i))

\* C37: when every cargo is filled by the plan, a tank that has completed
\* its final fill and is settling has a mix that sums to the volume filled
\* into it since it last emptied, and its frozen percentages are taken over
\* that volume: crude of an earlier cycle does not appear.
MixOfCurrentCycle ==
    (\A k \in 1..Len(cargos) : k \in PlannedCargos) =>
        \A i \in Tanks :
            state[i] = SETTLING /\ TankRows("FILL_FINAL_END", i) # {} =>
                /\ SumOver(tank_mix[i], Crudes) = CycleFilled(i)
                /\ \A c \in Crudes :
                       tank_mix[i][c] > 0 => tank_mix_pct[i][c][2] = CycleFilled(i)

\* C38: while the halt flag is set no tank is FEEDING, and a tank that is
\* FEEDING is the tank the active pointer designates.
HaltFlagExcludesFeeding ==
    /\ no_feed_alert_logged => \A i \in Tanks : state[i] # FEEDING
    /\ \A i \in Tanks : state[i] = FEEDING => active = i

\* A tank feeds, designated by the active pointer, after a halt that set
\* the flag and a resume that cleared it.
HaltFlagExcludesFeedingWitness ==
    /\ ~no_feed_alert_logged
    /\ active # 0 /\ state[active] = FEEDING
    /\ EventRows("PROCESSING_HALT") # {}
    /\ EventRows("PROCESSING_RESUME") # {}

\* C39: the closing stock of each day's summary row equals the opening
\* stock of the next day's row.
ClosingEqualsNextOpening ==
    \A d \in 1..(Len(daily_summary_rows) - 1) :
        daily_summary_rows[d].closing = daily_summary_rows[d + 1].opening

\* The tanks for which a step records the completion of a fill.
CompletedInStep ==
    {daily_log_rows'[n].Tank : n \in {m \in NewRows :
                                        daily_log_rows'[m].Event \in {"FILL_END", "FILL_FINAL_END"}}}

\* C40: a consumption step changes the volume of tanks that feed during it
\* only; a fill start changes no volume; a step that completes fills changes
\* the volume of the tanks whose fill completes only, whatever it schedules
\* or starts; the schedule check of a day start changes no volume; and a
\* tank in FILLING keeps its volume in every step that does not complete
\* its fill.
VolumesChangeOnlyByFeedAndCompletion ==
    [][\A i \in Tanks :
          /\ pc = "consume" /\ bbl'[i] # bbl[i] => state[i] = FEEDING \/ state'[i] = FEEDING
          /\ pc = "start" => bbl'[i] = bbl[i]
          /\ pc \in {"finish", "finish2"} /\ bbl'[i] # bbl[i] => i \in CompletedInStep
          /\ pc = "day_open" =>
                bbl'[i] = PromoteReadyTanks(Sim, DayStart(day_index)).bbl[i]
          /\ state[i] = FILLING /\ i \notin CompletedInStep => bbl'[i] = bbl[i]]_vars

\* After a consumption step that processed crude, one tank is being filled
\* and another, READY, holds crude.
VolumesChangeOnlyByFeedAndCompletionWitness ==
    /\ pc = "finish2" /\ processed_this_step > 0
    /\ \E i \in Tanks : state[i] = FILLING
    /\ \E i \in Tanks : state[i] = READY /\ bbl[i] > 0

=============================================================================
